---- MODULE Spec2Model ----
(***************************************************************************)
(* Model of src/scripts/foundry_character_compare.js: the CharacterDiffApp *)
(* window (two selection slots and the data handed to its template) and    *)
(* its diff routine calculateDifferences, together with the host helpers   *)
(* the routine calls (foundry.utils.diffObject, getProperty, deepClone,    *)
(* String.localeCompare, Array.sort), modelled by what they compute.       *)
(*                                                                         *)
(* Strings that the code inspects character by character (object keys and  *)
(* key paths) are sequences of character codes, so that splitting on "."   *)
(* and the two string orders (code-unit order, locale collation) are       *)
(* computed rather than assumed.                                           *)
(*                                                                         *)
(* The host helpers behave as the host library (Foundry VTT 0.8/9, the     *)
(* release whose globals the script uses) defines them: diffObject returns *)
(* a NESTED object holding, per differing key of its second argument, the  *)
(* new value or the nested difference; arrays are compared by              *)
(* Array.prototype.equals, element by element with ===.                    *)
(***************************************************************************)
EXTENDS Integers, Sequences, FiniteSets, TLC

\* keyOrder  the order in which object keys were inserted (for...in order)
\* arg1, arg2, result, pc  one call of calculateDifferences: its arguments,
\*           what it produced, and whether it has returned
\* actors    game.actors: id -> actor
\* actor1Id, actor2Id  the two selection slots of the window (lines 20-21)
\* data      what getData handed to the template at the last render
VARIABLES keyOrder, arg1, arg2, result, pc, actors, actor1Id, actor2Id, data

vars == <<keyOrder, arg1, arg2, result, pc, actors, actor1Id, actor2Id, data>>

----------------------------------------------------------------------------
(* Bounds *)

\* numbers stored in a record are 1..MaxInt
MaxInt == 2

----------------------------------------------------------------------------
(* JavaScript values.  Every value carries its type tag, the name          *)
(* foundry's getType gives it.                                             *)

Undefined == [t |-> "undefined"]
Null == [t |-> "null"]
Num(n) == [t |-> "number", n |-> n]
Arr(s) == [t |-> "Array", a |-> s]
Obj(f) == [t |-> "Object", o |-> f]
EmptyObj == Obj(<<>>)

getType(v) == v.t

\* original[key]: undefined when the key is not a property of the object
Get(object, key) == IF key \in DOMAIN object.o THEN object.o[key] ELSE Undefined

\* !x for the values of the model: null and undefined are falsy, objects truthy
Falsy(v) == getType(v) \in {"null", "undefined"}

isObjectEmpty(v) == DOMAIN v.o = {}

\* "." as a character code
ChDot == 46

\* the keys of the records compared: "a", "B" at the top level, "c", "e" one
\* level down, "d" two levels down
KeyA == <<97>>
KeyB == <<66>>
KeyC == <<99>>
KeyD == <<100>>
KeyE == <<101>>

----------------------------------------------------------------------------
(* Host helpers called by calculateDifferences *)

\* Object.keys(object): the object's own keys in insertion order.  Objects
\* are functions here; keyOrder is the order in which keys were inserted.
ObjectKeys(object) == SelectSeq(keyOrder, LAMBDA k : k \in DOMAIN object.o)

\* deepClone: arrays are mapped element by element, plain objects rebuilt key
\* by key, every other value returned as it is
RECURSIVE deepClone(_)
deepClone(original) ==
  CASE getType(original) = "Array" ->
         Arr([i \in 1..Len(original.a) |-> deepClone(original.a[i])])
    [] getType(original) = "Object" ->
         Obj([k \in DOMAIN original.o |-> deepClone(original.o[k])])
    [] OTHER -> original

\* v0 === v1 for a value of one clone and a value of the other: primitives
\* are compared by value; two objects or arrays are identical only when they
\* are the same reference, and the two clones share none
StrictEquals(v0, v1) ==
  /\ getType(v0) = getType(v1)
  /\ getType(v0) \notin {"Array", "Object"}
  /\ v0 = v1

\* Array.prototype.equals of the host: same length and every element ===
ArrayEquals(v0, v1) ==
  /\ getType(v1) = "Array"
  /\ Len(v1.a) = Len(v0.a)
  /\ \A i \in 1..Len(v0.a) : StrictEquals(v1.a[i], v0.a[i])

\* foundry.utils.diffObject(original, other): for every key of other, the
\* pair [isDifferent, difference] of the inner _difference; the keys kept are
\* those that differ, the values the new value or the nested difference
RECURSIVE diffObject(_, _)
Difference(v0, v1) ==
  IF getType(v0) # getType(v1) THEN [isDifferent |-> TRUE, difference |-> v1]
  ELSE IF getType(v0) = "Array"
    THEN [isDifferent |-> ~ArrayEquals(v0, v1), difference |-> v1]
  ELSE IF getType(v0) = "Object"
    THEN IF isObjectEmpty(v0) # isObjectEmpty(v1)
           THEN [isDifferent |-> TRUE, difference |-> v1]
           ELSE LET d == diffObject(v0, v1)
                IN  [isDifferent |-> ~isObjectEmpty(d), difference |-> d]
  ELSE [isDifferent |-> ~StrictEquals(v0, v1), difference |-> v1]

diffObject(original, other) ==
  LET differing == {k \in DOMAIN other.o :
                      Difference(Get(original, k), other.o[k]).isDifferent}
  IN  Obj([k \in differing |-> Difference(Get(original, k), other.o[k]).difference])

\* key.split("."): the segments between the dots
RECURSIVE Split(_)
Split(str) ==
  IF \A i \in 1..Len(str) : str[i] # ChDot THEN <<str>>
  ELSE LET i == CHOOSE j \in 1..Len(str) :
                  str[j] = ChDot /\ \A m \in 1..(j-1) : str[m] # ChDot
       IN  <<SubSeq(str, 1, i-1)>> \o Split(SubSeq(str, i+1, Len(str)))

\* getProperty(object, key): walk the segments of key; undefined as soon as
\* the target is no object or array or lacks the segment
RECURSIVE Walk(_, _)
Walk(target, parts) ==
  IF parts = <<>> THEN target
  ELSE IF getType(target) \notin {"Object", "Array"} THEN Undefined
  ELSE IF getType(target) = "Object" /\ Head(parts) \in DOMAIN target.o
    THEN Walk(target.o[Head(parts)], Tail(parts))
  ELSE Undefined

getProperty(object, key) ==
  IF key = <<>> THEN Undefined ELSE Walk(object, Split(key))

\* comparison of two code sequences position by position, a proper prefix
\* first: -1, 0 or 1
RECURSIVE LexCompare(_, _)
LexCompare(s, t) ==
  IF s = <<>> THEN (IF t = <<>> THEN 0 ELSE -1)
  ELSE IF t = <<>> THEN 1
  ELSE IF Head(s) < Head(t) THEN -1
  ELSE IF Head(s) > Head(t) THEN 1
  ELSE LexCompare(Tail(s), Tail(t))

IsUpper(ch) == ch >= 65 /\ ch <= 90

\* the primary collation weight of a character: a letter weighs the same in
\* both cases; "." and the digits keep their place before the letters
Primary(ch) == IF IsUpper(ch) THEN ch + 32 ELSE ch

\* the tertiary weight: lower case before upper case
Tertiary(ch) == IF IsUpper(ch) THEN 1 ELSE 0

\* a.localeCompare(b) under the default collation: the base letters decide;
\* between strings with the same base letters, the first difference in case
localeCompare(a, b) ==
  LET p == LexCompare([i \in 1..Len(a) |-> Primary(a[i])],
                      [i \in 1..Len(b) |-> Primary(b[i])])
  IN  IF p # 0 THEN p
      ELSE LexCompare([i \in 1..Len(a) |-> Tertiary(a[i])],
                      [i \in 1..Len(b) |-> Tertiary(b[i])])

\* the comparator with its operands exchanged
CompareFnExchanged(x, y) == localeCompare(y.key, x.key)

\* the comparator handed to sort on line 164
CompareFn(x, y) == localeCompare(x.key, y.key)

\* Array.prototype.sort with CompareFn: a stable sort, computed by insertion
RECURSIVE Insert(_, _)
Insert(sorted, x) ==
  IF sorted = <<>> THEN <<x>>
  ELSE IF CompareFn(x, Head(sorted)) < 0 THEN <<x>> \o sorted
  ELSE <<Head(sorted)>> \o Insert(Tail(sorted), x)

RECURSIVE SortFrom(_, _)
SortFrom(list, sorted) ==
  IF list = <<>> THEN sorted ELSE SortFrom(Tail(list), Insert(sorted, Head(list)))

Sort(list) == SortFrom(list, <<>>)

----------------------------------------------------------------------------
(* CharacterDiffApp.calculateDifferences *)

Entry(keyPath, status, value1, value2) ==
  [key |-> keyPath, status |-> status, value1 |-> value1, value2 |-> value2]

\* differences.some(d => d.key === keyPath)
SomeKey(differences, keyPath) ==
  \E i \in 1..Len(differences) : differences[i].key = keyPath

\* the loop of lines 116-138 over the keys of diff1to2
RECURSIVE ProcessDiff1to2(_, _, _, _)
ProcessDiff1to2(keys, data1, data2, differences) ==
  IF keys = <<>> THEN differences
  ELSE LET keyPath == Head(keys)
           value2 == getProperty(data2, keyPath)
           value1 == getProperty(data1, keyPath)
           pushed == IF getProperty(data1, keyPath) # Undefined
                     THEN Append(differences, Entry(keyPath, "changed", value1, value2))
                     ELSE Append(differences, Entry(keyPath, "added", Undefined, value2))
       IN  ProcessDiff1to2(Tail(keys), data1, data2, pushed)

\* the loop over the keys of diff2to1 without the test of lines 144-146
RECURSIVE ProcessDiff2to1NoSkip(_, _, _, _)
ProcessDiff2to1NoSkip(keys, data1, data2, differences) ==
  IF keys = <<>> THEN differences
  ELSE LET keyPath == Head(keys)
           value1 == getProperty(data1, keyPath)
           pushed == IF getProperty(data2, keyPath) = Undefined
                       THEN Append(differences, Entry(keyPath, "removed", value1, Undefined))
                     ELSE differences
       IN  ProcessDiff2to1NoSkip(Tail(keys), data1, data2, pushed)

\* the loop of lines 142-161 over the keys of diff2to1
RECURSIVE ProcessDiff2to1(_, _, _, _)
ProcessDiff2to1(keys, data1, data2, differences) ==
  IF keys = <<>> THEN differences
  ELSE LET keyPath == Head(keys)
           value1 == getProperty(data1, keyPath)
           value2 == getProperty(data2, keyPath)
           pushed == IF SomeKey(differences, keyPath) THEN differences
                     ELSE IF getProperty(data2, keyPath) = Undefined
                       THEN Append(differences, Entry(keyPath, "removed", value1, Undefined))
                     ELSE differences
       IN  ProcessDiff2to1(Tail(keys), data1, data2, pushed)

\* what a call produced: a returned array, or an exception
Returned(list) == [kind |-> "return", value |-> list]
Threw(name) == [kind |-> "throw", error |-> name]

\* lines 101-164: the comparison of two actors that are both there
DifferencesOf(actor1, actor2) ==
  LET data1 == deepClone(actor1)
      data2 == deepClone(actor2)
      diff1to2 == diffObject(data1, data2)
      diff2to1 == diffObject(data2, data1)
      first == ProcessDiff1to2(ObjectKeys(diff1to2), data1, data2, <<>>)
      both == ProcessDiff2to1(ObjectKeys(diff2to1), data1, data2, first)
  IN  Returned(Sort(both))

\* calculateDifferences without the test of lines 97-99: diffObject then
\* reads the keys of null, which raises a TypeError
calculateDifferencesUnguarded(actor1, actor2) ==
  IF Falsy(actor1) \/ Falsy(actor2) THEN Threw("TypeError")
  ELSE DifferencesOf(actor1, actor2)

\* lines 96-165
calculateDifferences(actor1, actor2) ==
  IF Falsy(actor1) \/ Falsy(actor2) THEN Returned(<<>>)
  ELSE DifferencesOf(actor1, actor2)

----------------------------------------------------------------------------
(* The records compared *)

Scalars == {Num(n) : n \in 1..MaxInt} \cup {Null, Undefined}

\* the objects with keys among keys whose value at key k is in Dom(k)
ObjectsOver(keys, Dom(_)) ==
  UNION { { Obj(f) : f \in { g \in [D -> UNION {Dom(k) : k \in keys}] :
                                \A k \in D : g[k] \in Dom(k) } } :
          D \in SUBSET keys }

InnerDom(k) == {Num(1)}
InnerObjs == ObjectsOver({KeyD}, InnerDom)

NestedDom(k) == IF k = KeyC THEN Scalars \cup InnerObjs ELSE {Num(1)}
NestedObjs == ObjectsOver({KeyC, KeyE}, NestedDom)

Arrays == {Arr(<<Num(1)>>), Arr(<<EmptyObj>>)}

TopDom(k) == IF k = KeyB THEN Scalars \cup Arrays \cup NestedObjs ELSE Scalars
Records == ObjectsOver({KeyA, KeyB}, TopDom)

\* what a caller may pass for an actor: a record, null or nothing
Args == Records \cup {Null, Undefined}

\* the insertion orders of the top-level keys
KeyOrders == { <<KeyA, KeyB, KeyC, KeyD, KeyE>>, <<KeyB, KeyA, KeyC, KeyD, KeyE>> }

----------------------------------------------------------------------------
(* The window: game.actors, the two selected ids, the data of the last     *)
(* render.  An id slot is <<>> for null and <<s>> for the string s.        *)

OBSERVER == 2

IdNull == <<>>

ActorEntry(name, hasOwner, permission, doc) ==
  [name |-> name, hasOwner |-> hasOwner, permission |-> permission, doc |-> doc]

\* game.actors.get(id): the entry with that id, or undefined
ActorsGet(id) ==
  IF id # IdNull /\ id[1] \in DOMAIN actors THEN actors[id[1]].doc ELSE Undefined

NotRendered == [kind |-> "none"]

\* the ids of the actors the user may see (line 46), sorted by name (line 56)
RECURSIVE InsertByName(_, _)
InsertByName(sorted, id) ==
  IF sorted = <<>> THEN <<id>>
  ELSE IF localeCompare(actors[id].name, actors[Head(sorted)].name) < 0
    THEN <<id>> \o sorted
  ELSE <<Head(sorted)>> \o InsertByName(Tail(sorted), id)

RECURSIVE SortByName(_, _)
SortByName(ids, sorted) ==
  IF ids = <<>> THEN sorted
  ELSE SortByName(Tail(ids), InsertByName(sorted, Head(ids)))

\* the collection's ids in the order the collection holds them
CollectionIds == <<"x1", "x2">>

VisibleIds ==
  SelectSeq(CollectionIds,
            LAMBDA id : id \in DOMAIN actors
                        /\ (actors[id].hasOwner \/ actors[id].permission >= OBSERVER))

\* lines 44-61, for the slots id1 and id2
getData(id1, id2) ==
  LET actor1 == ActorsGet(id1)
      actor2 == ActorsGet(id2)
      differences == IF ~Falsy(actor1) /\ ~Falsy(actor2)
                     THEN calculateDifferences(actor1, actor2).value
                     ELSE <<>>
  IN  [kind |-> "data", actors |-> SortByName(VisibleIds, <<>>),
       actor1 |-> actor1, actor2 |-> actor2, differences |-> differences]

\* the actors a world may hold: name, ownership, permission level, document
ActorDocs ==
  { ActorEntry(KeyA, TRUE, 0, Obj(KeyA :> Num(1))),
    ActorEntry(KeyB, FALSE, OBSERVER, Obj(KeyA :> Num(2) @@ KeyB :> Obj(KeyC :> Num(1)))),
    ActorEntry(KeyC, FALSE, 1, Obj(KeyB :> Obj(KeyC :> Num(1) @@ KeyE :> Num(1)))),
    ActorEntry(KeyE, TRUE, 3, Obj(KeyB :> Arr(<<EmptyObj>>))) }

Collections == [{"x1", "x2"} -> ActorDocs]

\* the values a selection event may carry: the blank option, the ids of the
\* collection, and an id the collection no longer holds
OptionValues == {"", "x1", "x2", "x9"}

NoCall == [kind |-> "none"]

----------------------------------------------------------------------------
(* calculateDifferences called on its own *)

\* the state after construction with nothing called and an empty world
Init ==
  /\ keyOrder \in KeyOrders
  /\ arg1 = Undefined /\ arg2 = Undefined /\ result = NoCall /\ pc = "idle"
  /\ actors = <<>>
  /\ actor1Id = IdNull /\ actor2Id = IdNull /\ data = NotRendered

\* one call calculateDifferences(a1, a2)
Call(a1, a2) ==
  /\ pc = "idle"
  /\ arg1' = a1 /\ arg2' = a2
  /\ result' = calculateDifferences(a1, a2)
  /\ pc' = "done"
  /\ UNCHANGED <<keyOrder, actors, actor1Id, actor2Id, data>>

\* the caller drops the list it got before it calls again
Discard ==
  /\ pc = "done"
  /\ arg1' = Undefined /\ arg2' = Undefined /\ result' = NoCall /\ pc' = "idle"
  /\ UNCHANGED <<keyOrder, actors, actor1Id, actor2Id, data>>

Next ==
  \/ \E a1 \in Args, a2 \in Args : Call(a1, a2)
  \/ Discard

Spec == Init /\ [][Next]_vars

----------------------------------------------------------------------------
(* The window *)

\* new CharacterDiffApp() in a world holding some actors (lines 17-22)
InitApp ==
  /\ keyOrder \in KeyOrders
  /\ arg1 = Undefined /\ arg2 = Undefined /\ result = NoCall /\ pc = "idle"
  /\ actors \in Collections
  /\ actor1Id = IdNull /\ actor2Id = IdNull /\ data = NotRendered

\* the button's render(true) on the new window (lines 5-7): getData runs and
\* the listeners are attached
Render ==
  /\ data = NotRendered
  /\ data' = getData(actor1Id, actor2Id)
  /\ UNCHANGED <<keyOrder, arg1, arg2, result, pc, actors, actor1Id, actor2Id>>

\* the first listener without its render(true)
ChangeActor1NoRender(value) ==
  /\ data # NotRendered
  /\ actor1Id' = <<value>>
  /\ UNCHANGED <<keyOrder, arg1, arg2, result, pc, actors, actor2Id, data>>

\* change on #actor1-select (lines 71-74)
ChangeActor1(value) ==
  /\ data # NotRendered
  /\ actor1Id' = <<value>>
  /\ data' = getData(<<value>>, actor2Id)
  /\ UNCHANGED <<keyOrder, arg1, arg2, result, pc, actors, actor2Id>>

\* change on #actor2-select (lines 77-80)
ChangeActor2(value) ==
  /\ data # NotRendered
  /\ actor2Id' = <<value>>
  /\ data' = getData(actor1Id, <<value>>)
  /\ UNCHANGED <<keyOrder, arg1, arg2, result, pc, actors, actor1Id>>

NextApp ==
  \/ Render
  \/ \E value \in OptionValues : ChangeActor1(value)
  \/ \E value \in OptionValues : ChangeActor2(value)

SpecApp == InitApp /\ [][NextApp]_vars

----------------------------------------------------------------------------
(* Vocabulary of the properties: key paths of a record *)

IsRecord(v) == getType(v) = "Object"

\* a call with two records has returned
Compared == pc = "done" /\ IsRecord(arg1) /\ IsRecord(arg2)

Entries == result.value

\* every path from the root of a record to one of its nodes, as key segments
RECURSIVE Paths(_)
Paths(v) ==
  IF ~IsRecord(v) THEN {}
  ELSE UNION { {<<k>>} \cup { <<k>> \o q : q \in Paths(v.o[k]) } : k \in DOMAIN v.o }

\* the node a path leads to; undefined when the path leaves the record
RECURSIVE PathValue(_, _)
PathValue(v, path) ==
  IF path = <<>> THEN v
  ELSE IF IsRecord(v) /\ Head(path) \in DOMAIN v.o
    THEN PathValue(v.o[Head(path)], Tail(path))
  ELSE Undefined

\* the paths that hold a value which is no nested record and is not undefined
LeafPaths(v) ==
  { q \in Paths(v) : ~IsRecord(PathValue(v, q)) /\ PathValue(v, q) # Undefined }

Front(path) == SubSeq(path, 1, Len(path) - 1)

\* the enclosing record exists in v and has no such key
AbsentAt(v, path) ==
  /\ IsRecord(PathValue(v, Front(path)))
  /\ path[Len(path)] \notin DOMAIN PathValue(v, Front(path)).o

\* the dot-delimited string of a path
RECURSIVE Dotted(_)
Dotted(path) ==
  IF Len(path) = 1 THEN path[1] ELSE path[1] \o <<ChDot>> \o Dotted(Tail(path))

\* str starts with prefix
HasPrefix(str, prefix) ==
  Len(str) >= Len(prefix) /\ SubSeq(str, 1, Len(prefix)) = prefix

EntriesAt(keyPath) == { i \in 1..Len(Entries) : Entries[i].key = keyPath }

IsScalar(v) == getType(v) \in {"number", "null"}

StatusKeys(list, status) ==
  { list[i].key : i \in { j \in 1..Len(list) : list[j].status = status } }

----------------------------------------------------------------------------
(* Properties *)

\* C1 (identity): comparing a record with itself returns the empty list.
C1_Identity ==
  (Compared /\ arg1 = arg2) => result = Returned(<<>>)

\* the list the call with the arguments exchanged returns
Backward == calculateDifferences(arg2, arg1).value

\* no node of the record holds undefined
AllDefined(v) == \A q \in Paths(v) : PathValue(v, q) # Undefined

\* C2 (symmetry of classification): the paths reported "added" are those the
\* exchanged call reports "removed" and conversely; the "changed" paths are
\* the same in both directions with the two values exchanged.  Stated for
\* records in which every stored value is defined.
C2_Symmetry ==
  (Compared /\ AllDefined(arg1) /\ AllDefined(arg2)) =>
    /\ StatusKeys(Entries, "added") = StatusKeys(Backward, "removed")
    /\ StatusKeys(Entries, "removed") = StatusKeys(Backward, "added")
    /\ StatusKeys(Entries, "changed") = StatusKeys(Backward, "changed")
    /\ \A i \in 1..Len(Entries) : \A j \in 1..Len(Backward) :
         (Entries[i].status = "changed" /\ Backward[j].key = Entries[i].key)
           => /\ Entries[i].value1 = Backward[j].value2
              /\ Entries[i].value2 = Backward[j].value1

\* C3 (removal completeness): every leaf path of the left record whose key
\* the right record lacks, at any depth, is reported exactly once, as
\* "removed", with the left value and no new value.
C3_RemovalCompleteness ==
  Compared =>
    \A q \in LeafPaths(arg1) : AbsentAt(arg2, q) =>
      /\ Cardinality(EntriesAt(Dotted(q))) = 1
      /\ \A i \in EntriesAt(Dotted(q)) :
           Entries[i] = Entry(Dotted(q), "removed", PathValue(arg1, q), Undefined)

HasEntry(e) == \E i \in 1..Len(Entries) : Entries[i] = e

IsLeafValue(v) == ~IsRecord(v) /\ v # Undefined

\* C4 (leaf-level reporting): every leaf path of the right record is reported
\* at its dotted path, as "changed" with both values when the left record
\* holds another leaf value there, as "added" with the new value alone when
\* the left record lacks the key.
C4_LeafLevelReporting ==
  Compared =>
    \A q \in LeafPaths(arg2) :
      /\ (IsLeafValue(PathValue(arg1, q)) /\ PathValue(arg1, q) # PathValue(arg2, q))
           => HasEntry(Entry(Dotted(q), "changed", PathValue(arg1, q), PathValue(arg2, q)))
      /\ AbsentAt(arg1, q)
           => HasEntry(Entry(Dotted(q), "added", Undefined, PathValue(arg2, q)))

\* a call in which an argument is null or missing has returned
CalledWithoutActor == pc = "done" /\ (Falsy(arg1) \/ Falsy(arg2))

\* C5 as stated (invalid input is an error): a call with a null or missing
\* argument fails with InvalidInput.
C5_InvalidInputFails ==
  CalledWithoutActor => result = Threw("InvalidInput")

\* C5 as amended: a call with a null or missing argument raises nothing and
\* returns the empty list, whatever the other argument holds.
C5_MissingActorReturnsEmpty ==
  CalledWithoutActor => result = Returned(<<>>)

C5_Witness ==
  pc = "done" /\ arg1 = Null /\ IsRecord(arg2) /\ arg2 # EmptyObj /\ result = Returned(<<>>)

\* C6 (no duplicate paths): the returned list holds each path at most once.
C6_NoDuplicatePaths ==
  Compared =>
    \A i, j \in 1..Len(Entries) : i # j => Entries[i].key # Entries[j].key

\* a key that both directions of diffObject report and that the second loop
\* would classify as removed, so that only the test of lines 144-146 keeps it
\* from being pushed twice
C6_Witness ==
  /\ Compared
  /\ \E k \in DOMAIN diffObject(arg1, arg2).o \cap DOMAIN diffObject(arg2, arg1).o :
       getProperty(arg2, k) = Undefined /\ Cardinality(EntriesAt(k)) = 1

\* C7 as stated (ordering): the paths of the returned list are non-decreasing
\* in code-unit (byte) order.
C7_ByteOrder ==
  Compared =>
    \A i, j \in 1..Len(Entries) :
      i < j => LexCompare(Entries[i].key, Entries[j].key) <= 0

\* C7 as amended: the paths of the returned list are non-decreasing in the
\* order of localeCompare, which puts "a" before "B".
C7_LocaleOrder ==
  Compared =>
    \A i, j \in 1..Len(Entries) :
      i < j => localeCompare(Entries[i].key, Entries[j].key) <= 0

\* "B" was inserted before "a", both are reported, and "a" comes first
C7_Witness ==
  /\ Compared
  /\ keyOrder[1] = KeyB
  /\ Len(Entries) = 2
  /\ Entries[1].key = KeyA /\ Entries[2].key = KeyB

\* C8 (entry well-formedness): "changed" has both values, "added" only the
\* new one, "removed" only the old one.
C8_WellFormed ==
  Compared =>
    \A i \in 1..Len(Entries) :
      /\ Entries[i].status = "changed"
           => (Entries[i].value1 # Undefined /\ Entries[i].value2 # Undefined)
      /\ Entries[i].status = "added"
           => (Entries[i].value1 = Undefined /\ Entries[i].value2 # Undefined)
      /\ Entries[i].status = "removed"
           => (Entries[i].value1 # Undefined /\ Entries[i].value2 = Undefined)

\* the path holds a scalar in one record and a nested record in the other
TypeChanged(q) ==
  \/ IsScalar(PathValue(arg1, q)) /\ IsRecord(PathValue(arg2, q))
  \/ IsRecord(PathValue(arg1, q)) /\ IsScalar(PathValue(arg2, q))

\* C9 (a type change is one changed leaf): where a path, top-level or nested,
\* holds a scalar on one side and a nested record on the other, exactly one
\* entry is reported at that path, it is "changed", and no entry is reported
\* below the path.
C9_TypeChangeIsOneLeaf ==
  Compared =>
    \A q \in Paths(arg1) \cup Paths(arg2) : TypeChanged(q) =>
      /\ Cardinality(EntriesAt(Dotted(q))) = 1
      /\ \A i \in EntriesAt(Dotted(q)) : Entries[i].status = "changed"
      /\ \A i \in 1..Len(Entries) : ~HasPrefix(Entries[i].key, Dotted(q) \o <<ChDot>>)

\* the slot holds the id of an actor of the collection
Resolves(id) == id # IdNull /\ id[1] \in DOMAIN actors

\* C10 (selection-driven recomputation): a step changes at most one of the
\* two slots, and once the window is rendered the differences handed to the
\* template are those of the two actors now selected, or the empty list when
\* a slot is unselected or does not resolve.
C10_SelectionDrivesDifferences ==
  /\ [](data # NotRendered =>
          data.differences =
            IF Resolves(actor1Id) /\ Resolves(actor2Id)
            THEN calculateDifferences(actors[actor1Id[1]].doc, actors[actor2Id[1]].doc).value
            ELSE <<>>)
  /\ [][(actor1Id' # actor1Id => actor2Id' = actor2Id)
        /\ (actor2Id' # actor2Id => actor1Id' = actor1Id)]_vars

\* two different actors are selected and the table is not empty
C10_Witness ==
  /\ data # NotRendered
  /\ Resolves(actor1Id) /\ Resolves(actor2Id) /\ actor1Id # actor2Id
  /\ data.differences # <<>>

====
